---- MODULE Spec2Model ----
(***************************************************************************)
(* Model of the document queue (src/database.py), the processing cycle     *)
(* (src/processory.py), the single-instance watcher (src/watcher.py) and   *)
(* the accessor calls by which work is enqueued (src/frontend_upload.py).  *)
(*                                                                         *)
(* Every DocumentDatabase method runs under db_lock on its own connection  *)
(* and commits before it returns, so each method is one atomic step.  The  *)
(* external calls (workflow engine, SharePoint uploads) are steps of the   *)
(* task that makes them and touch no shared state.                         *)
(***************************************************************************)
EXTENDS Integers, Sequences, FiniteSets, TLC

\* ---------------------------------------------------------------- bounds
MaxDocs == 3        \* document ids available to add_document
MaxTotal == 1       \* largest total_docs handed to create_batch
MaxTime == 1        \* CURRENT_TIMESTAMP runs over 0..MaxTime
PairDocs == 1       \* documents enqueued when two processes run cycles
FailDocs == 2       \* documents enqueued when store operations may fail
MaxFails == 1       \* store operations that fail in one behaviour
LiveDocs == 2       \* documents enqueued when the watcher runs fairly
CrashDocs == 2      \* documents enqueued when the watcher may be killed

\* ------------------------------------------------------ program constants
MAX_WORKERS == 2
CHECK_INTERVAL == 30           \* seconds
QUALITY_THRESHOLD == 700       \* 7.0, scores are kept in hundredths

DocIds == 1..MaxDocs
BatchIds == {"b1"}
\* Processes that run DocumentProcessor.run: the watchers (watcher.py) and
\* one invocation of processory.py's __main__ (the cron entry point).
W1 == "w1"
W2 == "w2"
CRON == "cron"
Procs == {W1, W2, CRON}
Watchers == {W1, W2}

NULL == -1                     \* SQL NULL of quality_score and created_at
NOURL == "NULL"                \* SQL NULL of a URL column
NOMSG == <<>>                  \* SQL NULL of error_message
NOPID == "none"                \* the lock file does not exist
DEADPID == "dead"              \* pid of a process that no longer exists
TERMINAL == {"completed", "failed"}

\* Scores the workflow engine can report (hundredths).
Scores == {400, 700}

VARIABLES
    batches,      \* table batches: batch_id -> row
    documents,    \* table documents: document_id -> row
    clock,        \* CURRENT_TIMESTAMP
    lockfile,     \* content of LOCK_FILE (NOPID when absent)
    pc,           \* control point of each process
    seen,         \* is_already_running: the pid read from the lock file
    shutdown_flag,\* watcher.py global, per watcher process
    pending,      \* run: pending_docs
    idx,          \* run: position in the for loop over pending_docs
    last_queued_count, \* watch_database local
    task,         \* run: the futures, document_id -> task state
    ncycles,      \* history: cycles that claimed at least one document
    nfails,       \* history: store operations that have failed
    slept         \* watch_database: seconds slept in the sleep under way

vars == <<batches, documents, clock, lockfile, pc, seen, shutdown_flag,
          pending, idx, last_queued_count, task, ncycles, nfails, slept>>

\* ------------------------------------------------------------- the store
NoBatch == [exists |-> FALSE, total_documents |-> 0,
            completed_documents |-> 0, status |-> "none"]

NoDoc == [exists |-> FALSE, batch_id |-> "none", status |-> "none",
          created_at |-> NULL, quality_score |-> NULL,
          processing_started_at |-> FALSE, processing_completed_at |-> FALSE,
          sharepoint_url |-> NOURL, report_url |-> NOURL,
          error_message |-> NOMSG]

\* INSERT INTO batches: the row create_batch writes; completed_documents and
\* status take the schema defaults 0 and 'pending'.
create_batch(bs, b, total_docs) ==
    [bs EXCEPT ![b] = [exists |-> TRUE, total_documents |-> total_docs,
                       completed_documents |-> 0, status |-> "pending"]]

\* SELECT COUNT(*) FROM documents WHERE batch_id = ? AND status IN (...)
CountTerminal(ds, b) ==
    Cardinality({d \in DocIds : ds[d].exists /\ ds[d].batch_id = b
                                /\ ds[d].status \in TERMINAL})

\* Mutant of update_batch_progress: the count is added to the stored
\* completed_documents instead of replacing it.
update_batch_progress_accumulate(bs, ds, b) ==
    IF ~bs[b].exists THEN bs
    ELSE LET completed == bs[b].completed_documents + CountTerminal(ds, b) IN
         [bs EXCEPT ![b].completed_documents = completed,
                    ![b].status = IF completed >= bs[b].total_documents
                                  THEN "completed" ELSE "processing"]

\* SELECT COUNT(*) of the batch's terminal documents, then UPDATE batches SET
\* completed_documents and status; no row matches an unknown batch_id.
update_batch_progress(bs, ds, b) ==
    IF ~bs[b].exists THEN bs
    ELSE LET completed == CountTerminal(ds, b) IN
         [bs EXCEPT ![b].completed_documents = completed,
                    ![b].status = IF completed >= bs[b].total_documents
                                  THEN "completed" ELSE "processing"]

\* INSERT INTO documents: status defaults to 'queued', created_at to now, the
\* nullable columns to NULL.  No foreign-key check is made on batch_id.
add_document(ds, d, b, now) ==
    [ds EXCEPT ![d] = [NoDoc EXCEPT !.exists = TRUE, !.batch_id = b,
                                    !.status = "queued", !.created_at = now]]

Queued(ds) == {d \in DocIds : ds[d].exists /\ ds[d].status = "queued"}

Min(a, b) == IF a <= b THEN a ELSE b

SeqSet(s) == {s[i] : i \in 1..Len(s)}

\* Mutant of get_pending_documents: the query without its LIMIT.
get_pending_unlimited(ds, limit) ==
    LET q == Queued(ds)
        n == Cardinality(q)
    IN {s \in [1..n -> q] :
          \A i, j \in 1..n : i < j =>
              /\ s[i] # s[j]
              /\ ds[s[i]].created_at <= ds[s[j]].created_at}

\* Mutant of get_pending_documents: ORDER BY created_at DESC.
get_pending_newest_first(ds, limit) ==
    LET q == Queued(ds)
        n == Min(limit, Cardinality(q))
    IN {s \in [1..n -> q] :
          /\ \A i, j \in 1..n : i < j =>
                /\ s[i] # s[j]
                /\ ds[s[i]].created_at >= ds[s[j]].created_at
          /\ \A d \in q \ {s[i] : i \in 1..n} :
                \A i \in 1..n : ds[s[i]].created_at >= ds[d].created_at}

\* Mutant of get_pending_documents: WHERE status IN ('queued',
\* 'processing'), so that interrupted documents are picked up again.
get_pending_with_processing(ds, limit) ==
    LET q == {d \in DocIds : ds[d].exists
                             /\ ds[d].status \in {"queued", "processing"}}
        n == Min(limit, Cardinality(q))
    IN {s \in [1..n -> q] :
          /\ \A i, j \in 1..n : i < j =>
                /\ s[i] # s[j]
                /\ ds[s[i]].created_at <= ds[s[j]].created_at
          /\ \A d \in q \ {s[i] : i \in 1..n} :
                \A i \in 1..n : ds[s[i]].created_at <= ds[d].created_at}

\* SELECT * FROM documents WHERE status = 'queued' ORDER BY created_at ASC
\* LIMIT ?: every row sequence the query may return; rows with the same
\* created_at come in no specified order.
get_pending_documents(ds, limit) ==
    LET q == Queued(ds)
        n == Min(limit, Cardinality(q))
    IN {s \in [1..n -> q] :
          /\ \A i, j \in 1..n : i < j =>
                /\ s[i] # s[j]
                /\ ds[s[i]].created_at <= ds[s[j]].created_at
          /\ \A d \in q \ {s[i] : i \in 1..n} :
                \A i \in 1..n : ds[s[i]].created_at <= ds[d].created_at}

\* UPDATE documents SET status = 'processing', processing_started_at = now
\* WHERE document_id = ?  (whatever the current status is).  The two
\* processing timestamps are kept as set (TRUE) or NULL (FALSE).
mark_document_processing(ds, d) ==
    IF ~ds[d].exists THEN ds
    ELSE [ds EXCEPT ![d].status = "processing",
                    ![d].processing_started_at = TRUE]

\* UPDATE documents SET status = ?, [processing_completed_at = now,]
\* <the columns named in kwargs> WHERE document_id = ?
KwOr(kw, k, old) == IF k \in DOMAIN kw THEN kw[k] ELSE old

update_document_status(ds, d, status, kw) ==
    IF ~ds[d].exists THEN ds
    ELSE [ds EXCEPT ![d] =
            [@ EXCEPT !.status = status,
                      !.processing_completed_at =
                          IF status \in TERMINAL THEN TRUE ELSE @,
                      !.quality_score = KwOr(kw, "quality_score", @),
                      !.sharepoint_url = KwOr(kw, "sharepoint_url", @),
                      !.report_url = KwOr(kw, "report_url", @),
                      !.error_message = KwOr(kw, "error_message", @)]]

\* SELECT COUNT(*) FROM documents WHERE status = 'queued'
get_processing_stats(ds) == [queued |-> Cardinality(Queued(ds))]


\* ------------------------------------------------------------------ Init
\* A task's locals: result['quality_score'], result['error'] and the URLs the
\* upload helpers returned (dropped once the terminal write has used them);
\* obtained and uploader_called record what sp_service.upload_file_to_folder
\* did: the URLs it returned, and whether an upload helper ran; temp is the
\* set of temporary paths the task has created and not removed.
NoTask == [pc |-> "none", score |-> NULL, error |-> NOMSG, html_url |-> "",
           content_url |-> "", report_url |-> "", obtained |-> {},
           uploader_called |-> FALSE, temp |-> {}]

\* The task moves on and the upload helpers' results go out of use.
Drop(t, next) ==
    [t EXCEPT !.pc = next, !.html_url = "", !.content_url = "",
              !.report_url = "", !.obtained = {}]

\* The database is new; the lock file is absent or was left by a watcher that
\* was killed.
Init ==
    /\ batches = [b \in BatchIds |-> NoBatch]
    /\ documents = [d \in DocIds |-> NoDoc]
    /\ clock = 0
    /\ lockfile \in {NOPID, DEADPID}
    /\ pc = [p \in Procs |-> "init"]
    /\ seen = [p \in Procs |-> NOPID]
    /\ shutdown_flag = [p \in Procs |-> FALSE]
    /\ pending = [p \in Procs |-> <<>>]
    /\ idx = [p \in Procs |-> 1]
    /\ last_queued_count = [p \in Procs |-> 0]
    /\ task = [p \in Procs |-> [d \in DocIds |-> NoTask]]
    /\ ncycles = 0
    /\ nfails = 0
    /\ slept = [p \in Procs |-> 0]

\* ------------------------------------------------- enqueueing (accessor)
\* Ids are uuid4 values: a new row takes the first id not yet used, a
\* duplicate key is any id in use.
FreshBatch(b) == ~batches[b].exists

FreshDoc(d) ==
    /\ ~documents[d].exists
    /\ \A e \in DocIds : e < d => documents[e].exists

\* db.create_batch(batch_id, user_email, analysis_type, total_docs): a
\* duplicate batch_id raises inside the try and the call returns False.
CreateBatch(b, total_docs) ==
    /\ FreshBatch(b) \/ batches[b].exists
    /\ batches' = IF batches[b].exists THEN batches
                  ELSE create_batch(batches, b, total_docs)
    /\ UNCHANGED <<documents, clock, lockfile, pc, seen, shutdown_flag,
                   pending, idx, last_queued_count, task, ncycles, nfails,
                   slept>>

\* db.add_document(document_data): a duplicate document_id raises inside the
\* try and the call returns False; batch_id is not checked.  now is
\* CURRENT_TIMESTAMP at the insert: the clock never runs backwards.
AddDocument(d, b, now) ==
    /\ FreshDoc(d) \/ documents[d].exists
    /\ now >= clock
    /\ clock' = now
    /\ documents' = IF documents[d].exists THEN documents
                    ELSE add_document(documents, d, b, now)
    /\ UNCHANGED <<batches, lockfile, pc, seen, shutdown_flag,
                   pending, idx, last_queued_count, task, ncycles, nfails,
                   slept>>

\* --------------------------------------------------- watcher start-up
\* os.kill(pid, 0) succeeds: pid names a watcher process that has started and
\* has not ended.
NotRunning == {"init", "exit1", "stopped", "crashed", "aborted", "killed"}

Alive(pid) ==
    /\ pid \in Watchers
    /\ pc[pid] \notin NotRunning

\* is_already_running: LOCK_FILE.exists()
CheckLock(w) ==
    /\ pc[w] = "init"
    /\ pc' = [pc EXCEPT ![w] = IF lockfile = NOPID THEN "acquire" ELSE "read"]
    /\ UNCHANGED <<batches, documents, clock, lockfile, seen, shutdown_flag,
                   pending, idx, last_queued_count, task, ncycles, nfails,
                   slept>>

\* is_already_running: int(LOCK_FILE.read_text().strip()); a file that has
\* gone raises FileNotFoundError, an OSError, so the except branch runs.
ReadLock(w) ==
    /\ pc[w] = "read"
    /\ seen' = [seen EXCEPT ![w] = lockfile]
    /\ pc' = [pc EXCEPT ![w] = IF lockfile = NOPID THEN "unlink" ELSE "probe"]
    /\ UNCHANGED <<batches, documents, clock, lockfile, shutdown_flag,
                   pending, idx, last_queued_count, task, ncycles, nfails,
                   slept>>

\* Mutant of ProbeLock: every lock found is taken for stale.
ProbeLock_NeverRunning(w) ==
    /\ pc[w] = "probe"
    /\ pc' = [pc EXCEPT ![w] = "unlink"]
    /\ UNCHANGED <<batches, documents, clock, lockfile, seen, shutdown_flag,
                   pending, idx, last_queued_count, task, ncycles, nfails,
                   slept>>

\* Mutant of ProbeLock: every lock found is taken for held.
ProbeLock_AlwaysRunning(w) ==
    /\ pc[w] = "probe"
    /\ pc' = [pc EXCEPT ![w] = "exit1"]
    /\ UNCHANGED <<batches, documents, clock, lockfile, seen, shutdown_flag,
                   pending, idx, last_queued_count, task, ncycles, nfails,
                   slept>>

\* is_already_running: os.kill(pid, 0); alive: return True and sys.exit(1),
\* OSError: the lock is stale.
ProbeLock(w) ==
    /\ pc[w] = "probe"
    /\ pc' = [pc EXCEPT ![w] = IF Alive(seen[w]) THEN "exit1" ELSE "unlink"]
    /\ UNCHANGED <<batches, documents, clock, lockfile, seen, shutdown_flag,
                   pending, idx, last_queued_count, task, ncycles, nfails,
                   slept>>

\* is_already_running: LOCK_FILE.unlink() in the except branch; on a file
\* that has gone it raises FileNotFoundError, which nothing catches.
UnlinkStale(w) ==
    /\ pc[w] = "unlink"
    /\ lockfile' = NOPID
    /\ pc' = [pc EXCEPT ![w] = IF lockfile = NOPID THEN "crashed" ELSE "acquire"]
    /\ UNCHANGED <<batches, documents, clock, seen, shutdown_flag,
                   pending, idx, last_queued_count, task, ncycles, nfails,
                   slept>>

\* acquire_lock: LOCK_FILE.write_text(str(os.getpid())), then the loop is
\* entered with last_queued_count = 0.  What is_already_running read is not
\* used again.
AcquireLock(w) ==
    /\ pc[w] = "acquire"
    /\ lockfile' = w
    /\ pc' = [pc EXCEPT ![w] = "loop"]
    /\ seen' = [seen EXCEPT ![w] = NOPID]
    /\ last_queued_count' = [last_queued_count EXCEPT ![w] = 0]
    /\ UNCHANGED <<batches, documents, clock, shutdown_flag,
                   pending, idx, task, ncycles, nfails, slept>>

\* signal_handler: SIGINT or SIGTERM delivered to a running watcher.
Signal(w) ==
    /\ pc[w] \notin NotRunning
    /\ ~shutdown_flag[w]
    /\ shutdown_flag' = [shutdown_flag EXCEPT ![w] = TRUE]
    /\ UNCHANGED <<batches, documents, clock, lockfile, pc, seen,
                   pending, idx, last_queued_count, task, ncycles, nfails,
                   slept>>

\* ------------------------------------------------------ watcher loop
\* Mutant of Poll: the loop is `while True`.
Poll_IgnoresStop(w) ==
    /\ pc[w] = "loop"
    /\ LET queued_count == get_processing_stats(documents).queued IN
       IF queued_count > 0
       THEN /\ pc' = [pc EXCEPT ![w] = "claim"]
            /\ UNCHANGED last_queued_count
       ELSE /\ pc' = [pc EXCEPT ![w] = "sleep"]
            /\ last_queued_count' = [last_queued_count EXCEPT ![w] = 0]
    /\ UNCHANGED <<batches, documents, clock, lockfile, seen, shutdown_flag,
                   pending, idx, task, ncycles, nfails, slept>>

\* Mutant of Poll: after the cycle last_queued_count keeps the count that
\* was read instead of being reset to 0.
Poll_RemembersCount(w) ==
    /\ pc[w] = "loop"
    /\ ~shutdown_flag[w]
    /\ LET queued_count == get_processing_stats(documents).queued IN
       IF queued_count > 0
       THEN IF queued_count # last_queued_count[w]
            THEN /\ pc' = [pc EXCEPT ![w] = "claim"]
                 /\ last_queued_count' =
                        [last_queued_count EXCEPT ![w] = queued_count]
            ELSE /\ pc' = [pc EXCEPT ![w] = "sleep"]
                 /\ UNCHANGED last_queued_count
       ELSE /\ pc' = [pc EXCEPT ![w] = "sleep"]
            /\ last_queued_count' = [last_queued_count EXCEPT ![w] = 0]
    /\ UNCHANGED <<batches, documents, clock, lockfile, seen, shutdown_flag,
                   pending, idx, task, ncycles, nfails, slept>>

\* One pass of `while not shutdown_flag` up to the decision to run a cycle:
\* get_processing_stats, then the queued_count tests.
Poll(w) ==
    /\ pc[w] = "loop"
    /\ ~shutdown_flag[w]
    /\ LET queued_count == get_processing_stats(documents).queued IN
       IF queued_count > 0
       THEN IF queued_count # last_queued_count[w]
            THEN /\ pc' = [pc EXCEPT ![w] = "claim"]
                 /\ UNCHANGED last_queued_count
            ELSE /\ pc' = [pc EXCEPT ![w] = "sleep"]
                 /\ UNCHANGED last_queued_count
       ELSE /\ pc' = [pc EXCEPT ![w] = "sleep"]
            /\ last_queued_count' = [last_queued_count EXCEPT ![w] = 0]
    /\ UNCHANGED <<batches, documents, clock, lockfile, seen, shutdown_flag,
                   pending, idx, task, ncycles, nfails, slept>>

\* The 1-second sleep loop ends (interval over, or shutdown_flag seen).
Sleep(w) ==
    /\ pc[w] = "sleep"
    /\ pc' = [pc EXCEPT ![w] = "loop"]
    /\ UNCHANGED <<batches, documents, clock, lockfile, seen, shutdown_flag,
                   pending, idx, last_queued_count, task, ncycles, nfails,
                   slept>>

\* The sleep loop second by second.  One pass of `for i in
\* range(CHECK_INTERVAL)`: shutdown_flag is clear, time.sleep(1).
SleepTick(w) ==
    /\ pc[w] = "sleep"
    /\ slept[w] < CHECK_INTERVAL
    /\ ~shutdown_flag[w]
    /\ slept' = [slept EXCEPT ![w] = slept[w] + 1]
    /\ UNCHANGED <<batches, documents, clock, lockfile, pc, seen,
                   shutdown_flag, pending, idx, last_queued_count, task,
                   ncycles, nfails>>

\* The for loop ends: range exhausted, or `if shutdown_flag: break`.
SleepEnd(w) ==
    /\ pc[w] = "sleep"
    /\ slept[w] = CHECK_INTERVAL \/ shutdown_flag[w]
    /\ slept' = [slept EXCEPT ![w] = 0]
    /\ pc' = [pc EXCEPT ![w] = "loop"]
    /\ UNCHANGED <<batches, documents, clock, lockfile, seen, shutdown_flag,
                   pending, idx, last_queued_count, task, ncycles, nfails>>

\* get_processing_stats, or get_pending_documents at the head of run,
\* raises a sqlite3 error: the loop's `except Exception` logs it and calls
\* time.sleep(CHECK_INTERVAL).
PollFails(w) ==
    /\ pc[w] \in {"loop", "claim"}
    /\ pc[w] = "loop" => ~shutdown_flag[w]
    /\ pc' = [pc EXCEPT ![w] = "error_sleep"]
    /\ UNCHANGED <<batches, documents, clock, lockfile, seen, shutdown_flag,
                   pending, idx, last_queued_count, task, ncycles, nfails,
                   slept>>

\* One second of time.sleep(CHECK_INTERVAL) goes by; a signal handler that
\* returns does not end the sleep.
ErrorSleepTick(w) ==
    /\ pc[w] = "error_sleep"
    /\ slept[w] < CHECK_INTERVAL
    /\ slept' = [slept EXCEPT ![w] = slept[w] + 1]
    /\ UNCHANGED <<batches, documents, clock, lockfile, pc, seen,
                   shutdown_flag, pending, idx, last_queued_count, task,
                   ncycles, nfails>>

\* time.sleep(CHECK_INTERVAL) returns and the while test is next.
ErrorSleepEnd(w) ==
    /\ pc[w] = "error_sleep"
    /\ slept[w] = CHECK_INTERVAL
    /\ slept' = [slept EXCEPT ![w] = 0]
    /\ pc' = [pc EXCEPT ![w] = "loop"]
    /\ UNCHANGED <<batches, documents, clock, lockfile, seen, shutdown_flag,
                   pending, idx, last_queued_count, task, ncycles, nfails>>

\* `while not shutdown_flag` is false: leave the loop for the finally block.
LeaveLoop(w) ==
    /\ pc[w] = "loop"
    /\ shutdown_flag[w]
    /\ pc' = [pc EXCEPT ![w] = "release"]
    /\ UNCHANGED <<batches, documents, clock, lockfile, seen, shutdown_flag,
                   pending, idx, last_queued_count, task, ncycles, nfails,
                   slept>>

\* An error leaves the while loop: something the inner `except Exception`
\* does not catch (SystemExit, or an error raised by the handler's own
\* logging or sleep).  Control passes to the finally block with the error
\* pending.
Escape(w) ==
    /\ pc[w] \in {"loop", "sleep"}
    /\ pc' = [pc EXCEPT ![w] = "unwind"]
    /\ UNCHANGED <<batches, documents, clock, lockfile, seen, shutdown_flag,
                   pending, idx, last_queued_count, task, ncycles, nfails,
                   slept>>

\* Mutant of ReleaseLock: the lock is released at the end of the try body
\* instead of in a finally block.
ReleaseLock_NoFinally(w) ==
    /\ pc[w] \in {"release", "unwind"}
    /\ lockfile' = IF pc[w] = "release" THEN NOPID ELSE lockfile
    /\ pc' = [pc EXCEPT ![w] = IF pc[w] = "release" THEN "stopped"
                                                   ELSE "aborted"]
    /\ UNCHANGED <<batches, documents, clock, seen, shutdown_flag,
                   pending, idx, last_queued_count, task, ncycles, nfails,
                   slept>>

\* The finally block, release_lock: if LOCK_FILE.exists(): LOCK_FILE.unlink();
\* then watch_database returns, or the pending error ends the process.
ReleaseLock(w) ==
    /\ pc[w] \in {"release", "unwind"}
    /\ lockfile' = NOPID
    /\ pc' = [pc EXCEPT ![w] = IF pc[w] = "release" THEN "stopped"
                                                   ELSE "aborted"]
    /\ UNCHANGED <<batches, documents, clock, seen, shutdown_flag,
                   pending, idx, last_queued_count, task, ncycles, nfails,
                   slept>>

\* The watcher process is killed (SIGKILL, power loss) inside a cycle: its
\* pool threads end with it, nothing of the finally block runs, and the lock
\* file and the database stay as they are.
Kill(w) ==
    /\ pc[w] \in {"mark", "wait"}
    /\ pc' = [pc EXCEPT ![w] = "killed"]
    /\ task' = [task EXCEPT ![w] = [d \in DocIds |-> NoTask]]
    /\ pending' = [pending EXCEPT ![w] = <<>>]
    /\ idx' = [idx EXCEPT ![w] = 1]
    /\ UNCHANGED <<batches, documents, clock, lockfile, seen, shutdown_flag,
                   last_queued_count, ncycles, nfails, slept>>

\* processory.py run as a script: processor.run() with no lock taken.
CronStart ==
    /\ pc[CRON] = "init"
    /\ pc' = [pc EXCEPT ![CRON] = "claim"]
    /\ UNCHANGED <<batches, documents, clock, lockfile, seen, shutdown_flag,
                   pending, idx, last_queued_count, task, ncycles, nfails,
                   slept>>

\* Where control goes when DocumentProcessor.run returns: the watcher resets
\* last_queued_count and sleeps, the script ends.
AfterRun(p) == IF p = CRON THEN "init" ELSE "sleep"

\* --------------------------------------------- DocumentProcessor.run
MaxCycles == MaxDocs + 1

\* run: pending_docs = db.get_pending_documents(limit=MAX_WORKERS); an
\* empty result returns at once.
Claim(p) ==
    /\ pc[p] = "claim"
    /\ ncycles < MaxCycles
    /\ \E s \in get_pending_documents(documents, MAX_WORKERS) :
         /\ pending' = [pending EXCEPT ![p] = s]
         /\ idx' = [idx EXCEPT ![p] = 1]
         /\ pc' = [pc EXCEPT ![p] = IF s = <<>> THEN AfterRun(p) ELSE "mark"]
         /\ ncycles' = IF s = <<>> THEN ncycles ELSE ncycles + 1
    /\ UNCHANGED <<batches, documents, clock, lockfile, seen, shutdown_flag,
                   last_queued_count, task, nfails, slept>>

\* executor.submit(self.process_document, doc): the task starts at the
\* workflow call.
Submit(t, p, d) ==
    [t EXCEPT ![p][d] = [NoTask EXCEPT !.pc = "workflow"]]

\* run, one pass of `for doc in pending_docs`: mark the document processing,
\* submit its task.
Mark(p) ==
    /\ pc[p] = "mark"
    /\ LET d == pending[p][idx[p]] IN
         /\ documents' = mark_document_processing(documents, d)
         /\ task' = Submit(task, p, d)
    /\ idx' = [idx EXCEPT ![p] = idx[p] + 1]
    /\ pc' = [pc EXCEPT ![p] = IF idx[p] = Len(pending[p]) THEN "wait" ELSE "mark"]
    /\ UNCHANGED <<batches, clock, lockfile, seen, shutdown_flag, pending,
                   last_queued_count, ncycles, nfails, slept>>

\* Mutant of Wait: the executor is shut down with wait=False and the
\* futures are not joined.
Wait_NoJoin(p) ==
    /\ pc[p] = "wait"
    /\ task' = [task EXCEPT ![p] =
                   [d \in DocIds |-> IF task[p][d].pc = "done" THEN NoTask
                                     ELSE task[p][d]]]
    /\ pending' = [pending EXCEPT ![p] = <<>>]
    /\ idx' = [idx EXCEPT ![p] = 1]
    /\ pc' = [pc EXCEPT ![p] = AfterRun(p)]
    /\ UNCHANGED <<batches, documents, clock, lockfile, seen, shutdown_flag,
                   last_queued_count, ncycles, nfails, slept>>

\* run: every future.result() has returned and the executor has shut down.
Wait(p) ==
    /\ pc[p] = "wait"
    /\ \A d \in SeqSet(pending[p]) : task[p][d].pc = "done"
    /\ task' = [task EXCEPT ![p] = [d \in DocIds |-> NoTask]]
    /\ pending' = [pending EXCEPT ![p] = <<>>]
    /\ idx' = [idx EXCEPT ![p] = 1]
    /\ pc' = [pc EXCEPT ![p] = AfterRun(p)]
    /\ UNCHANGED <<batches, documents, clock, lockfile, seen, shutdown_flag,
                   last_queued_count, ncycles, nfails, slept>>

\* ------------------------------------- DocumentProcessor.process_document
\* f"{quality_score:.1f}": hundredths rounded to tenths.
Format1(s) == (s + 5) \div 10

\* What run_workflow can return: a final state with or without
\* automation_analysis.quality_scores.overall_score.
FinalStates ==
    {[has_score |-> TRUE, overall_score |-> s] : s \in Scores}
        \cup {[has_score |-> FALSE, overall_score |-> NULL]}

\* quality_scores.get('overall_score', 0.0)
overall_score(final_state) ==
    IF final_state.has_score THEN final_state.overall_score ELSE 0

\* _process_async: the workflow raises (result success False), or returns a
\* final state (result success True with its score).
TaskWorkflow(p, d) ==
    /\ task[p][d].pc = "workflow"
    /\ \/ task' = [task EXCEPT ![p][d] =
                       [@ EXCEPT !.pc = "write_error",
                                 !.error = <<"workflow_error">>]]
       \/ \E fs \in FinalStates :
            task' = [task EXCEPT ![p][d] =
                       [@ EXCEPT !.pc = "upload", !.score = overall_score(fs)]]
    /\ UNCHANGED <<batches, documents, clock, lockfile, pc, seen,
                   shutdown_flag, pending, idx, last_queued_count, ncycles,
                   nfails, slept>>

\* Mutant of TaskWriteError: the message is read under a key the result
\* does not have, so the default text is stored.
TaskWriteError_UnknownError(p, d) ==
    /\ task[p][d].pc = "write_error"
    /\ documents' = update_document_status(documents, d, "failed",
                        [error_message |-> <<"Unknown error">>])
    /\ task' = [task EXCEPT ![p][d].pc = "done"]
    /\ UNCHANGED <<batches, clock, lockfile, pc, seen, shutdown_flag,
                   pending, idx, last_queued_count, ncycles, nfails, slept>>

\* Mutant of TaskWriteError: the failure is logged and the task returns
\* without the write.
TaskWriteError_NoWrite(p, d) ==
    /\ task[p][d].pc = "write_error"
    /\ task' = [task EXCEPT ![p][d].pc = "done"]
    /\ UNCHANGED <<batches, documents, clock, lockfile, pc, seen,
                   shutdown_flag, pending, idx, last_queued_count, ncycles,
                   nfails, slept>>

\* process_document line 100: not result['success']; write failed with
\* result['error'] and return.
TaskWriteError(p, d) ==
    /\ task[p][d].pc = "write_error"
    /\ documents' = update_document_status(documents, d, "failed",
                        [error_message |-> task[p][d].error])
    /\ task' = [task EXCEPT ![p][d].pc = "done"]
    /\ UNCHANGED <<batches, clock, lockfile, pc, seen, shutdown_flag,
                   pending, idx, last_queued_count, ncycles, nfails, slept>>

\* _upload_approved: the two uploads in order; any exception in the body
\* gives {'html_url': '', 'content_url': ''}.
upload_approved(html_ok, txt_ok) ==
    IF html_ok /\ txt_ok
    THEN [html_url |-> "url_html", content_url |-> "url_content"]
    ELSE [html_url |-> "", content_url |-> ""]

\* _upload_failure_report: the upload's URL, or '' on any exception.
upload_failure_report(ok) == IF ok THEN "url_report" ELSE ""

\* The URLs upload_file_to_folder returned inside _upload_approved: the
\* content upload is tried only after the report upload has returned.
obtained_approved(html_ok, txt_ok) ==
    IF ~html_ok THEN {}
    ELSE IF txt_ok THEN {"url_html", "url_content"} ELSE {"url_html"}

obtained_failure_report(ok) == IF ok THEN {"url_report"} ELSE {}

\* The temporary paths that exist when _upload_approved returns: both files
\* are written before the first upload, and os.remove / os.rmdir come after
\* the second upload inside the same try.
temp_approved(html_ok, txt_ok) ==
    IF html_ok /\ txt_ok THEN {} ELSE {"html_path", "txt_path", "temp_dir"}

\* The temporary paths that exist when _upload_failure_report returns.
temp_failure_report(ok) == IF ok THEN {} ELSE {"report_path", "temp_dir"}

\* process_document lines 114-132: _init_sharepoint (which may raise into the
\* outer except), then the uploads of the path the quality gate chose.
TaskUpload(p, d) ==
    /\ task[p][d].pc = "upload"
    /\ \/ task' = [task EXCEPT ![p][d].pc = "except"]
       \/ /\ task[p][d].score >= QUALITY_THRESHOLD
          /\ \E html_ok, txt_ok \in BOOLEAN :
               LET u == upload_approved(html_ok, txt_ok) IN
               task' = [task EXCEPT ![p][d] =
                          [@ EXCEPT !.pc = "write", !.html_url = u.html_url,
                                    !.content_url = u.content_url,
                                    !.obtained =
                                        obtained_approved(html_ok, txt_ok),
                                    !.temp = temp_approved(html_ok, txt_ok),
                                    !.uploader_called = TRUE]]
       \/ /\ task[p][d].score < QUALITY_THRESHOLD
          /\ \E ok \in BOOLEAN :
               task' = [task EXCEPT ![p][d] =
                          [@ EXCEPT !.pc = "write",
                                    !.report_url = upload_failure_report(ok),
                                    !.obtained = obtained_failure_report(ok),
                                    !.temp = temp_failure_report(ok),
                                    !.uploader_called = TRUE]]
    /\ UNCHANGED <<batches, documents, clock, lockfile, pc, seen,
                   shutdown_flag, pending, idx, last_queued_count, ncycles,
                   nfails, slept>>

\* The terminal write of the approval path (lines 119-125) or of the
\* rejection path (lines 134-140).
GateWrite(ds, d, t) ==
    IF t.score >= QUALITY_THRESHOLD
    THEN update_document_status(ds, d, "completed",
             [quality_score |-> t.score, sharepoint_url |-> t.content_url,
              report_url |-> t.html_url])
    ELSE update_document_status(ds, d, "failed",
             [quality_score |-> t.score, report_url |-> t.report_url,
              error_message |-> <<"quality", Format1(t.score),
                                  Format1(QUALITY_THRESHOLD)>>])

TaskWrite(p, d) ==
    /\ task[p][d].pc = "write"
    /\ documents' = GateWrite(documents, d, task[p][d])
    /\ task' = [task EXCEPT ![p][d] = Drop(@, "progress")]
    /\ UNCHANGED <<batches, clock, lockfile, pc, seen, shutdown_flag,
                   pending, idx, last_queued_count, ncycles, nfails, slept>>

\* process_document line 145: db.update_batch_progress(doc['batch_id']); the
\* batch id is the one read at claim time, which no operation changes.
TaskProgress(p, d) ==
    /\ task[p][d].pc = "progress"
    /\ batches' = update_batch_progress(batches, documents,
                                        documents[d].batch_id)
    /\ task' = [task EXCEPT ![p][d].pc = "done"]
    /\ UNCHANGED <<documents, clock, lockfile, pc, seen, shutdown_flag,
                   pending, idx, last_queued_count, ncycles, nfails, slept>>

\* Mutant of TaskExcept: the except branch logs the error and writes nothing.
TaskExcept_LogOnly(p, d) ==
    /\ task[p][d].pc = "except"
    /\ task' = [task EXCEPT ![p][d].pc = "done"]
    /\ UNCHANGED <<batches, documents, clock, lockfile, pc, seen,
                   shutdown_flag, pending, idx, last_queued_count, ncycles,
                   nfails, slept>>

\* process_document lines 147-153: the except branch writes failed with
\* str(e).
TaskExcept(p, d) ==
    /\ task[p][d].pc = "except"
    /\ documents' = update_document_status(documents, d, "failed",
                        [error_message |-> <<"unexpected_error">>])
    /\ task' = [task EXCEPT ![p][d].pc = "done"]
    /\ UNCHANGED <<batches, clock, lockfile, pc, seen, shutdown_flag,
                   pending, idx, last_queued_count, ncycles, nfails, slept>>

\* ------------------------------------------------- store-operation failure
\* A sqlite3 error (database locked, disk full) raised by a store call.
\* mark_document_processing catches it and returns False; run ignores the
\* result and submits the task.
MarkFails(p) ==
    /\ nfails < MaxFails
    /\ nfails' = nfails + 1
    /\ pc[p] = "mark"
    /\ task' = Submit(task, p, pending[p][idx[p]])
    /\ idx' = [idx EXCEPT ![p] = idx[p] + 1]
    /\ pc' = [pc EXCEPT ![p] = IF idx[p] = Len(pending[p]) THEN "wait" ELSE "mark"]
    /\ UNCHANGED <<batches, documents, clock, lockfile, seen, shutdown_flag,
                   pending, last_queued_count, ncycles, slept>>

\* update_document_status or update_batch_progress raises inside the try of
\* process_document: control passes to the except branch.
TaskStoreFails(p, d) ==
    /\ nfails < MaxFails
    /\ nfails' = nfails + 1
    /\ task[p][d].pc \in {"write_error", "write", "progress"}
    /\ task' = [task EXCEPT ![p][d] = Drop(@, "except")]
    /\ UNCHANGED <<batches, documents, clock, lockfile, pc, seen,
                   shutdown_flag, pending, idx, last_queued_count, ncycles,
                   slept>>

\* update_document_status raises in the except branch: the exception leaves
\* process_document and future.result() re-raises it into run, which logs it.
TaskExceptFails(p, d) ==
    /\ nfails < MaxFails
    /\ nfails' = nfails + 1
    /\ task[p][d].pc = "except"
    /\ task' = [task EXCEPT ![p][d].pc = "done"]
    /\ UNCHANGED <<batches, documents, clock, lockfile, pc, seen,
                   shutdown_flag, pending, idx, last_queued_count, ncycles,
                   slept>>

\* ------------------------------------------------------ specifications
\* The accessor calls of the upload handler, on at most n documents.
Enqueue(n) ==
    \/ \E b \in BatchIds, total_docs \in 0..MaxTotal :
         CreateBatch(b, total_docs)
    \/ \E d \in 1..n, b \in BatchIds, now \in 0..MaxTime :
         AddDocument(d, b, now)

WatcherStep(w) ==
    \/ CheckLock(w) \/ ReadLock(w) \/ ProbeLock(w) \/ UnlinkStale(w)
    \/ AcquireLock(w) \/ Signal(w) \/ Poll(w) \/ Sleep(w) \/ LeaveLoop(w)
    \/ ReleaseLock(w)

RunStep(p) ==
    \/ Claim(p) \/ Mark(p) \/ Wait(p)
    \/ \E d \in DocIds :
         \/ TaskWorkflow(p, d) \/ TaskWriteError(p, d) \/ TaskUpload(p, d)
         \/ TaskWrite(p, d) \/ TaskProgress(p, d) \/ TaskExcept(p, d)

FailStep(p) ==
    \/ MarkFails(p)
    \/ \E d \in DocIds : TaskStoreFails(p, d) \/ TaskExceptFails(p, d)

\* One watcher, store operations succeed.
Next == Enqueue(MaxDocs) \/ WatcherStep(W1) \/ RunStep(W1)

Spec == Init /\ [][Next]_vars

\* One watcher, store operations may fail.
NextFail ==
    \/ Enqueue(FailDocs) \/ WatcherStep(W1) \/ RunStep(W1) \/ FailStep(W1)

SpecFail == Init /\ [][NextFail]_vars

\* One watcher and processory.py run as a script beside it.
NextCron ==
    \/ Enqueue(PairDocs) \/ WatcherStep(W1) \/ RunStep(W1)
    \/ CronStart \/ RunStep(CRON)

SpecCron == Init /\ [][NextCron]_vars

\* Two watcher processes started on the same host.
NextLock ==
    \/ Enqueue(PairDocs)
    \/ \E w \in Watchers : WatcherStep(w) \/ RunStep(w)

SpecLock == Init /\ [][NextLock]_vars

\* One watcher whose loop an error may leave; once started, the watcher's
\* start-up code runs on to the loop or to an exit.
Startup(w) == ReadLock(w) \/ ProbeLock(w) \/ UnlinkStale(w) \/ AcquireLock(w)

NextWatch ==
    \/ Enqueue(PairDocs) \/ WatcherStep(W1) \/ RunStep(W1) \/ Escape(W1)

SpecWatch == Init /\ [][NextWatch]_vars /\ WF_vars(Startup(W1))

\* A watcher that may be killed inside a cycle, and a second watcher that
\* is started after the first has died.
NextCrash ==
    \/ Enqueue(CrashDocs)
    \/ WatcherStep(W1) \/ RunStep(W1) \/ Kill(W1)
    \/ pc[W1] = "killed" /\ (WatcherStep(W2) \/ RunStep(W2))

SpecCrash == Init /\ [][NextCrash]_vars

\* One watcher with its sleeps taken second by second, and store reads
\* that may fail.
NextSleep ==
    \/ Enqueue(PairDocs)
    \/ CheckLock(W1) \/ Startup(W1) \/ Signal(W1) \/ Poll(W1)
    \/ LeaveLoop(W1) \/ ReleaseLock(W1) \/ RunStep(W1)
    \/ SleepTick(W1) \/ SleepEnd(W1)
    \/ PollFails(W1) \/ ErrorSleepTick(W1) \/ ErrorSleepEnd(W1)

SpecSleep == Init /\ [][NextSleep]_vars

\* One watcher that, once it can take a step, takes one: the process and
\* the threads of its pool are scheduled.
WatcherRun(w) ==
    \/ CheckLock(w) \/ Startup(w) \/ Poll(w) \/ Sleep(w) \/ LeaveLoop(w)
    \/ ReleaseLock(w) \/ RunStep(w)

NextLive == Enqueue(LiveDocs) \/ WatcherStep(W1) \/ RunStep(W1)

SpecLive == Init /\ [][NextLive]_vars /\ WF_vars(WatcherRun(W1))

\* ------------------------------------------------------------- claims
Rows(b) == {d \in DocIds : documents[d].exists /\ documents[d].batch_id = b}

Processing == {d \in DocIds : documents[d].exists
                              /\ documents[d].status = "processing"}

Running(p) == {d \in DocIds : task[p][d].pc \notin {"none", "done"}}

InLoop(w) == pc[w] \in {"loop", "claim", "mark", "wait", "sleep"}

\* C1: a document's status only moves queued -> processing -> completed or
\* failed; it never skips processing, never goes back, and a completed or
\* failed document never changes status again.
C1_StatusTransitions ==
    [][\A d \in DocIds : documents[d].exists =>
          \/ documents'[d].status = documents[d].status
          \/ /\ documents[d].status = "queued"
             /\ documents'[d].status = "processing"
          \/ /\ documents[d].status = "processing"
             /\ documents'[d].status \in TERMINAL]_vars

\* C2: when process_document has returned, the document it was given is
\* completed or failed, whatever the workflow and the uploads did.
C2_TerminalAtReturn ==
    \A p \in Procs, d \in DocIds :
        task[p][d].pc = "done" => documents[d].status \in TERMINAL

\* C2 witness: a task has returned through the except branch and another
\* through the approval path with both uploads failed.
C2_Witness ==
    \E d, e \in DocIds :
        /\ task[W1][d].pc = "done" /\ task[W1][e].pc = "done"
        /\ documents[d].error_message = <<"unexpected_error">>
        /\ documents[e].status = "completed"
        /\ documents[e].sharepoint_url = ""

\* C3: a batch's status is 'completed' exactly when its completed_documents
\* equals its total_documents.
C3_CompletedIffAllDone ==
    \A b \in BatchIds : batches[b].exists =>
        (batches[b].status = "completed"
            <=> batches[b].completed_documents = batches[b].total_documents)

\* C4: at the step that ends a task, on every path, the owning batch's
\* completed_documents equals the number of its documents that are
\* completed or failed.
C4_ProgressAfterEveryTask ==
    [][\A p \in Procs, d \in DocIds :
          (/\ task[p][d].pc # "done"
           /\ task'[p][d].pc = "done"
           /\ batches'[documents[d].batch_id].exists)
          => batches'[documents[d].batch_id].completed_documents
                = CountTerminal(documents', documents[d].batch_id)]_vars

\* C5: a batch's total_documents equals the number of document rows
\* enqueued against it.
C5_TotalEqualsRows ==
    \A b \in BatchIds : batches[b].exists =>
        batches[b].total_documents = Cardinality(Rows(b))

\* C6: completed_documents never exceeds total_documents.
C6_CompletedAtMostTotal ==
    \A b \in BatchIds : batches[b].exists =>
        batches[b].completed_documents <= batches[b].total_documents

\* C7: a cycle claims at most MAX_WORKERS documents and marks no other; so
\* at most MAX_WORKERS documents are in processing and at most MAX_WORKERS
\* tasks run at once, and the documents that have left queued number at most
\* MAX_WORKERS per cycle run.
C7_CycleBound ==
    /\ Len(pending[W1]) <= MAX_WORKERS
    /\ Processing \subseteq SeqSet(pending[W1])
    /\ Cardinality(Processing) <= MAX_WORKERS
    /\ Cardinality(Running(W1)) <= MAX_WORKERS
    /\ Cardinality({d \in DocIds : documents[d].exists
                                   /\ documents[d].status # "queued"})
          <= MAX_WORKERS * ncycles

\* C7 witness: with more documents queued than MAX_WORKERS, the first cycle
\* has marked MAX_WORKERS of them and the rest are still queued.
C7_Witness ==
    /\ ncycles = 1
    /\ pc[W1] = "wait"
    /\ Cardinality(Processing) = MAX_WORKERS
    /\ Cardinality(Running(W1)) = MAX_WORKERS
    /\ Queued(documents) # {}

\* C8: get_pending_documents returns at most MAX_WORKERS documents, all of
\* them queued, and no document is marked processing while a document with
\* a strictly earlier creation time is queued and not claimed by the same
\* cycle.
C8_ClaimFifo ==
    [][/\ \A p \in Procs :
             (pending'[p] # pending[p] /\ pending'[p] # <<>>) =>
                /\ Len(pending'[p]) <= MAX_WORKERS
                /\ SeqSet(pending'[p]) \subseteq Queued(documents)
       /\ \A d \in DocIds :
             (/\ documents[d].status = "queued"
              /\ documents'[d].status = "processing") =>
                \A e \in Queued(documents) :
                    documents[e].created_at < documents[d].created_at =>
                        \E p \in Procs : {d, e} \subseteq SeqSet(pending[p])
      ]_vars

\* C8 witness: a cycle has marked a document while one created strictly
\* later waits in the queue.
C8_Witness ==
    \E d, e \in DocIds :
        /\ pc[W1] \in {"mark", "wait"}
        /\ d \in Processing /\ d \in SeqSet(pending[W1])
        /\ e \in Queued(documents)
        /\ documents[d].created_at < documents[e].created_at

\* C9: with two cycles running side by side, no document is claimed by both
\* and no document has a task in both.
C9_NoDoubleClaim ==
    \A d \in DocIds :
        /\ ~(d \in SeqSet(pending[W1]) /\ d \in SeqSet(pending[CRON]))
        /\ ~(task[W1][d].pc # "none" /\ task[CRON][d].pc # "none")

\* C10: at most one watcher is past lock acquisition at any time.
C10_SingleInstance ==
    Cardinality({w \in Watchers : InLoop(w)}) <= 1

\* C11: a watcher that starts while the lock file names a live watcher goes
\* through the existence test, the read and the probe to exit status 1 and
\* stays there; none of these steps changes the lock file, a document, a
\* batch, or starts a cycle.
LiveHolder == lockfile \in Watchers /\ Alive(lockfile)

C11_LiveLockExit ==
    [][\A w \in Watchers :
          /\ (/\ pc'[w] # pc[w]
              /\ LiveHolder
              /\ \/ pc[w] \in {"init", "read"}
                 \/ pc[w] = "probe" /\ seen[w] = lockfile)
             => /\ pc'[w] = CASE pc[w] = "init" -> "read"
                               [] pc[w] = "read" -> "probe"
                               [] pc[w] = "probe" -> "exit1"
                /\ lockfile' = lockfile
                /\ documents' = documents /\ batches' = batches
                /\ pending' = pending /\ task' = task /\ ncycles' = ncycles
          /\ pc[w] = "exit1" => pc'[w] = "exit1"]_vars

\* C11 witness: the second watcher has exited with status 1 while the first
\* holds the lock and is in its loop.
C11_Witness ==
    /\ pc[W2] = "exit1" /\ seen[W2] = W1
    /\ lockfile = W1 /\ InLoop(W1)
    /\ pending[W2] = <<>>

\* C12: a watcher that finds the lock file naming a process that is gone
\* removes the file, writes its own pid and enters the polling loop.
C12_StaleLockTakeover ==
    (pc[W1] = "read" /\ lockfile = DEADPID)
        ~> (pc[W1] = "loop" /\ lockfile = W1)

\* C12 witness: the watcher read a dead pid, has removed the lock file and
\* is at acquire_lock.
C12_Witness ==
    /\ pc[W1] = "acquire" /\ seen[W1] = DEADPID /\ lockfile = NOPID

\* C13: when a watcher that had the lock has stopped, after a stop signal
\* or after an error left the loop, the lock file it wrote is gone.
C13_LockReleasedOnExit ==
    \A w \in Watchers : pc[w] \in {"stopped", "aborted"} => lockfile # w

\* C13 witness: an error left the loop and the watcher has ended with the
\* lock file removed.
C13_Witness ==
    /\ pc[W1] = "aborted" /\ lockfile = NOPID

\* C14: a task whose workflow call returned score s (0 when the result has
\* none) leaves its document completed with quality_score s and no error
\* message when s >= QUALITY_THRESHOLD, and failed with quality_score s and
\* the message "Quality score <s to one decimal> below threshold 7.0" when
\* s < QUALITY_THRESHOLD.
C14_QualityGate ==
    \A p \in Procs, d \in DocIds :
        (task[p][d].pc = "done" /\ task[p][d].score # NULL) =>
            LET s == task[p][d].score IN
            /\ documents[d].quality_score = s
            /\ IF s >= QUALITY_THRESHOLD
               THEN /\ documents[d].status = "completed"
                    /\ documents[d].error_message = NOMSG
               ELSE /\ documents[d].status = "failed"
                    /\ documents[d].error_message
                          = <<"quality", Format1(s), Format1(QUALITY_THRESHOLD)>>

\* C15: a task whose workflow call raised ends with its document failed,
\* error_message the raised error's text, quality_score NULL and no URL
\* stored, and it never runs an upload helper.
C15_WorkflowError ==
    \A p \in Procs, d \in DocIds :
        task[p][d].error # NOMSG =>
            /\ ~task[p][d].uploader_called
            /\ task[p][d].pc \in {"write_error", "done"}
            /\ task[p][d].pc = "done" =>
                  /\ documents[d].status = "failed"
                  /\ documents[d].error_message = task[p][d].error
                  /\ documents[d].quality_score = NULL
                  /\ documents[d].sharepoint_url = NOURL
                  /\ documents[d].report_url = NOURL

\* C15 witness: a task whose workflow raised has returned beside a task
\* that went through the uploads.
C15_Witness ==
    \E d, e \in DocIds :
        /\ task[W1][d].pc = "done" /\ task[W1][d].error = <<"workflow_error">>
        /\ documents[d].status = "failed"
        /\ task[W1][e].pc = "done" /\ task[W1][e].uploader_called

\* C16: the terminal write after the uploads stores the status the quality
\* gate decided and, for each URL, the URL the uploader returned, the empty
\* string only for an upload that failed.
Recorded(t, url) == IF url \in t.obtained THEN url ELSE ""

C16_UrlsAsObtained ==
    [][\A p \in Procs, d \in DocIds :
          (task[p][d].pc = "write" /\ task'[p][d].pc = "progress") =>
              LET t == task[p][d]
                  r == documents'[d]
              IN IF t.score >= QUALITY_THRESHOLD
                 THEN /\ r.status = "completed"
                      /\ r.report_url = Recorded(t, "url_html")
                      /\ r.sharepoint_url = Recorded(t, "url_content")
                 ELSE /\ r.status = "failed"
                      /\ r.report_url = Recorded(t, "url_report")]_vars

\* C17: mark_document_processing moves a queued document to processing and
\* stamps its start; called on a document that is not queued it leaves the
\* document's status and processing_started_at as they were.
C17_MarkOnlyQueued ==
    [][\A p \in Procs :
          (pc[p] = "mark" /\ idx'[p] = idx[p] + 1) =>
              LET d == pending[p][idx[p]] IN
              IF documents[d].status = "queued"
              THEN /\ documents'[d].status = "processing"
                   /\ documents'[d].processing_started_at
              ELSE /\ documents'[d].status = documents[d].status
                   /\ documents'[d].processing_started_at
                         = documents[d].processing_started_at]_vars

\* C18: a terminal write on a document that is already completed or failed
\* changes nothing of the stored row.
C18_TerminalWriteOnce ==
    [][\A d \in DocIds :
          (documents[d].status \in TERMINAL
              /\ documents'[d].status \in TERMINAL)
          => documents'[d] = documents[d]]_vars

\* C19: add_document creates one row, in status queued, for a batch that
\* exists, and changes no batch row.
C19_AddDocumentChecksBatch ==
    [][\A d \in DocIds :
          (~documents[d].exists /\ documents'[d].exists) =>
              /\ documents'[d].status = "queued"
              /\ \A e \in DocIds \ {d} : documents'[e] = documents[e]
              /\ batches' = batches
              /\ batches[documents'[d].batch_id].exists]_vars

\* C20: update_batch_progress applied twice to the same documents gives the
\* completed_documents and status that one application gives.
C20_ProgressIdempotent ==
    \A b \in BatchIds :
        LET once == update_batch_progress(batches, documents, b)
            twice == update_batch_progress(once, documents, b)
        IN /\ twice[b].completed_documents = once[b].completed_documents
           /\ twice[b].status = once[b].status

\* C20 witness: a batch whose progress was updated for one finished
\* document has since had another document finish, so the next update
\* changes the row.
C20_Witness ==
    \E b \in BatchIds :
        /\ batches[b].exists
        /\ batches[b].completed_documents >= 1
        /\ CountTerminal(documents, b) > batches[b].completed_documents
        /\ update_batch_progress(batches, documents, b) # batches

C22_PollStartsCycle ==
    [][\A w \in Watchers :
          (pc[w] = "loop" /\ pc'[w] \in {"claim", "sleep"}) =>
              /\ last_queued_count[w] = 0
              /\ pc'[w] = "claim" <=> Cardinality(Queued(documents)) > 0]_vars

\* C22 witness: after a cycle, a poll that read the same queued count as
\* the poll before it has started the next cycle.
C22_Witness ==
    /\ pc[W1] = "claim" /\ ncycles = 1
    /\ Cardinality(Queued(documents)) = 1
    /\ Cardinality({d \in DocIds : documents[d].status \in TERMINAL}) = 1

\* C23: outside run the watcher has no task: when it polls, sleeps or
\* starts a cycle, every task of the cycle before has finished, also when a
\* task raised.
C23_CycleSynchronous ==
    \A w \in Watchers :
        pc[w] \notin {"mark", "wait"} =>
            \A d \in DocIds : task[w][d].pc = "none"

\* C23 witness: a task raised out of process_document, leaving its document
\* in processing, and run has returned to the watcher.
C23_Witness ==
    \E d \in DocIds :
        /\ pc[W1] = "sleep" /\ nfails = 1
        /\ documents[d].status = "processing"
        /\ \A e \in DocIds : task[W1][e].pc = "none"

\* C28: with one watcher that keeps running and is never told to stop,
\* every queued document becomes completed or failed, and from some point
\* on the queue is empty.
C28_QueueDrains ==
    /\ \A d \in DocIds :
          (documents[d].status = "queued")
              ~> (documents[d].status \in TERMINAL \/ shutdown_flag[W1])
    /\ <>[](Queued(documents) = {} \/ shutdown_flag[W1])

\* C28 witness: two cycles have drained the queue with the stop flag clear.
C28_Witness ==
    /\ ~shutdown_flag[W1] /\ ncycles = 2 /\ pc[W1] = "sleep"
    /\ Queued(documents) = {}
    /\ \A d \in 1..LiveDocs : documents[d].status \in TERMINAL

\* C24: once the stop flag is set the watcher begins no further second of
\* sleep, in the sleep between polls and in the sleep after a caught error
\* alike.
C24_SleepInterruptible ==
    [][\A w \in Watchers :
          slept'[w] = slept[w] + 1 => ~shutdown_flag[w]]_vars

\* C25: when a task has finished, every temporary file and directory it
\* created has been removed, whatever the uploads did.
C25_NoTempLeak ==
    \A p \in Procs, d \in DocIds :
        task[p][d].pc = "done" => task[p][d].temp = {}

\* C26: the nullable columns of every document agree with its status.
C26_FieldsMatchStatus ==
    \A d \in DocIds : documents[d].exists =>
        LET r == documents[d] IN
        /\ r.status = "queued" =>
              /\ r.quality_score = NULL
              /\ ~r.processing_started_at /\ ~r.processing_completed_at
              /\ r.sharepoint_url = NOURL /\ r.report_url = NOURL
              /\ r.error_message = NOMSG
        /\ r.status = "processing" =>
              /\ r.processing_started_at /\ ~r.processing_completed_at
              /\ r.quality_score = NULL
        /\ r.processing_completed_at <=> r.status \in TERMINAL
        /\ r.status = "completed" =>
              /\ r.quality_score # NULL
              /\ r.quality_score >= QUALITY_THRESHOLD
              /\ r.error_message = NOMSG
        /\ r.sharepoint_url # NOURL => r.status = "completed"
        /\ r.status = "failed" => r.error_message # NOMSG

\* C27: an unlink of the lock file by a watcher removes a file that holds
\* that watcher's own pid or the pid of a process that is not running.
C27_UnlinkOwnOrDead ==
    [][(lockfile # NOPID /\ lockfile' = NOPID) =>
          \A w \in Watchers :
              pc'[w] # pc[w] => (lockfile = w \/ ~Alive(lockfile))]_vars

\* C29: a document left in processing by a watcher that was killed inside
\* a cycle, with no task and no claim of a live process on it, is never
\* claimed again, gets no task and never changes.
Orphaned(d) ==
    /\ documents[d].status = "processing"
    /\ \E w \in Watchers : pc[w] = "killed"
    /\ \A p \in Procs : task[p][d].pc = "none" /\ d \notin SeqSet(pending[p])

C29_NoReclaimAfterCrash ==
    [][\A d \in DocIds :
          Orphaned(d) =>
              /\ documents'[d] = documents[d]
              /\ \A p \in Procs : /\ d \notin SeqSet(pending'[p])
                                   /\ task'[p][d].pc = "none"]_vars

\* C29 witness: the first watcher was killed with a document in
\* processing; the second watcher has since run a cycle on another document
\* to its terminal state, and the first document is still in processing.
C29_Witness ==
    \E d, e \in DocIds :
        /\ pc[W1] = "killed" /\ Orphaned(d)
        /\ e \in SeqSet(pending[W2])
        /\ documents[e].status \in TERMINAL

====
